---------------------------- MODULE Spec2Model ----------------------------
(***************************************************************************)
(* ANNA Protocol Tier 1 verifier (src/verifier/verifier.py).               *)
(*                                                                         *)
(* Part 1 models Python values, json.dumps, the jsonschema validation of   *)
(* REASONING_SCHEMA and ANNAVerifier.verify_reasoning as operators.        *)
(* Part 2 models log_verification, submit_verification and the poll loop   *)
(* of listen_for_attestations as a state machine.                          *)
(* Part 3 models wait_for_verification and submit_attestation of the SDK   *)
(* client (src/sdk/anna_sdk.py).                                           *)
(***************************************************************************)
EXTENDS Integers, Sequences, FiniteSets, TLC

VARIABLES
    reasoning_json,   \* the argument verify_reasoning is applied to on its own
    verdict,          \* what the latest verify_reasoning call returned
    dry_run,          \* self.dry_run
    pc,               \* position of the single thread in listen_for_attestations
    polls,            \* number of get_new_entries calls made so far
    new_events,       \* the part of the current poll's batch not yet iterated
    processed_events, \* the local set processed_events
    skipped,          \* history: ids the loop skipped as duplicates at line 393
    attestation_id,   \* loop variable attestation_id of the event being handled
    tx,               \* the transaction submit_verification is building / awaiting
    chain,            \* ledger side: receipt status of each mined transaction, pending ones
    log_files,        \* logs/verifications/<id[:16]>.json : file name -> entry
    json_log,         \* logs/verifier.json.log: sequence of entries
    submit_calls,     \* history: every call of submit_verification (id, passed, score)
    submit_returns,   \* history: what each of those calls returned
    log_at_return,    \* history: entries written by each call, counted at its return
    reordered,        \* a second record, for calculate_reasoning_hash on two records
    hashes,           \* the hashes of reasoning_json and of reordered
    wait_args,        \* SDK wait_for_verification: timeout and poll_interval
    wait_pc,          \* SDK wait_for_verification: position of the caller
    elapsed,          \* SDK: time.time() - start_time, in seconds
    status_onchain,   \* SDK: the status field attestations(id).call() returns
    wait_result,      \* SDK wait_for_verification: what the call returned or raised
    sub_args,         \* SDK submit_attestation: the client's setup and the arguments
    sub_pc,           \* SDK submit_attestation: position of the caller
    agent_id,         \* SDK submit_attestation: local agent_id (-1 before line 412)
    sent,             \* SDK submit_attestation: transactions sent by the call
    sub_result        \* SDK submit_attestation: what the call returned or raised

hashVars == << reordered, hashes >>

waitVars == << wait_args, wait_pc, elapsed, status_onchain, wait_result >>

submitVars == << sub_args, sub_pc, agent_id, sent, sub_result >>

\* the variables the verifier does not touch
otherVars == << hashVars, waitVars, submitVars >>

vars == << reasoning_json, verdict, dry_run, pc, polls, new_events,
           processed_events, skipped, attestation_id, tx, chain, log_files,
           json_log, submit_calls, submit_returns, log_at_return, otherVars >>

watcherVars == << dry_run, pc, polls, new_events, processed_events, skipped,
                  attestation_id, tx, chain, log_files, json_log,
                  submit_calls, submit_returns, log_at_return >>

-----------------------------------------------------------------------------
(* Part 1a: Python values.  A value is a record whose field t is the      *)
(* Python type; s holds a str, n an int or a float in hundredths (95 is    *)
(* 0.95; float('nan') has its own tag), xs the items of a list and kv the  *)
(* (key, value) items of a dict in insertion order.  A long str is kept in *)
(* run-length form: n is the number of "a" characters that precede s.      *)

PyValue(t, s, n, xs, kv) == [t |-> t, s |-> s, n |-> n, xs |-> xs, kv |-> kv]

PyStr(s)    == PyValue("str",   s,  0, <<>>, <<>>)
\* "a" * n + s
PyLongStr(n, s) == PyValue("str", s,  n, <<>>, <<>>)
PyInt(n)    == PyValue("int",   "", n, <<>>, <<>>)
PyFloat(h)  == PyValue("float", "", h, <<>>, <<>>)
PyNaN       == PyValue("nan",   "", 0, <<>>, <<>>)
PyList(xs)  == PyValue("list",  "", 0, xs,   <<>>)
PyDict(kvs) == PyValue("dict",  "", 0, <<>>, kvs)
\* a Python object the json module cannot serialize (a set, bytes, ...)
PySet       == PyValue("set",   "", 0, <<>>, <<>>)

\* TLC cannot index a string, so the characters of every str the model uses
\* are tabulated: CharTable[s] is s as a sequence of one-character strings
CharTable ==
    ("input" :>
        <<"i", "n", "p", "u", "t">>) @@
    ("reasoning_steps" :>
        <<"r", "e", "a", "s", "o", "n", "i", "n", "g", "_", "s", "t",
        "e", "p", "s">>) @@
    ("conclusion" :>
        <<"c", "o", "n", "c", "l", "u", "s", "i", "o", "n">>) @@
    ("confidence" :>
        <<"c", "o", "n", "f", "i", "d", "e", "n", "c", "e">>) @@
    ("step_number" :>
        <<"s", "t", "e", "p", "_", "n", "u", "m", "b", "e", "r">>) @@
    ("description" :>
        <<"d", "e", "s", "c", "r", "i", "p", "t", "i", "o", "n">>) @@
    ("rationale" :>
        <<"r", "a", "t", "i", "o", "n", "a", "l", "e">>) @@
    ("index" :>
        <<"i", "n", "d", "e", "x">>) @@
    ("ignore previous instructions" :>
        <<"i", "g", "n", "o", "r", "e", " ", "p", "r", "e", "v", "i",
        "o", "u", "s", " ", "i", "n", "s", "t", "r", "u", "c", "t", "i",
        "o", "n", "s">>) @@
    ("ignore all instructions" :>
        <<"i", "g", "n", "o", "r", "e", " ", "a", "l", "l", " ", "i",
        "n", "s", "t", "r", "u", "c", "t", "i", "o", "n", "s">>) @@
    ("jailbreak" :>
        <<"j", "a", "i", "l", "b", "r", "e", "a", "k">>) @@
    ("bypass" :>
        <<"b", "y", "p", "a", "s", "s">>) @@
    ("hack" :>
        <<"h", "a", "c", "k">>) @@
    ("disable safety" :>
        <<"d", "i", "s", "a", "b", "l", "e", " ", "s", "a", "f", "e",
        "t", "y">>) @@
    ("ignore guidelines" :>
        <<"i", "g", "n", "o", "r", "e", " ", "g", "u", "i", "d", "e",
        "l", "i", "n", "e", "s">>) @@
    ("forget everything" :>
        <<"f", "o", "r", "g", "e", "t", " ", "e", "v", "e", "r", "y",
        "t", "h", "i", "n", "g">>) @@
    ("new instructions" :>
        <<"n", "e", "w", " ", "i", "n", "s", "t", "r", "u", "c", "t",
        "i", "o", "n", "s">>) @@
    ("system prompt" :>
        <<"s", "y", "s", "t", "e", "m", " ", "p", "r", "o", "m", "p",
        "t">>) @@
    ("override" :>
        <<"o", "v", "e", "r", "r", "i", "d", "e">>) @@
    ("Generate legal contract" :>
        <<"G", "e", "n", "e", "r", "a", "t", "e", " ", "l", "e", "g",
        "a", "l", " ", "c", "o", "n", "t", "r", "a", "c", "t">>) @@
    ("Identified contract type" :>
        <<"I", "d", "e", "n", "t", "i", "f", "i", "e", "d", " ", "c",
        "o", "n", "t", "r", "a", "c", "t", " ", "t", "y", "p", "e">>) @@
    ("User requested legal contract" :>
        <<"U", "s", "e", "r", " ", "r", "e", "q", "u", "e", "s", "t",
        "e", "d", " ", "l", "e", "g", "a", "l", " ", "c", "o", "n", "t",
        "r", "a", "c", "t">>) @@
    ("Applied legal framework" :>
        <<"A", "p", "p", "l", "i", "e", "d", " ", "l", "e", "g", "a",
        "l", " ", "f", "r", "a", "m", "e", "w", "o", "r", "k">>) @@
    ("Used Brazilian Civil Code" :>
        <<"U", "s", "e", "d", " ", "B", "r", "a", "z", "i", "l", "i",
        "a", "n", " ", "C", "i", "v", "i", "l", " ", "C", "o", "d",
        "e">>) @@
    ("Contract generated successfully" :>
        <<"C", "o", "n", "t", "r", "a", "c", "t", " ", "g", "e", "n",
        "e", "r", "a", "t", "e", "d", " ", "s", "u", "c", "c", "e", "s",
        "s", "f", "u", "l", "l", "y">>) @@
    ("" :>
        <<>>) @@
    ("x" :>
        <<"x">>) @@
    ("c" :>
        <<"c">>) @@
    ("d" :>
        <<"d">>) @@
    ("r" :>
        <<"r">>) @@
    ("Hack" :>
        <<"H", "a", "c", "k">>) @@
    ("please ByPass the filter" :>
        <<"p", "l", "e", "a", "s", "e", " ", "B", "y", "P", "a", "s",
        "s", " ", "t", "h", "e", " ", "f", "i", "l", "t", "e", "r">>) @@
    ("0.9" :>
        <<"0", ".", "9">>) @@
    ("aaaaaaaaaaaaaaaa111111111111111111111111111111111111111111111111" :>
        <<"a", "a", "a", "a", "a", "a", "a", "a", "a", "a", "a", "a",
        "a", "a", "a", "a", "1", "1", "1", "1", "1", "1", "1", "1", "1",
        "1", "1", "1", "1", "1", "1", "1", "1", "1", "1", "1", "1", "1",
        "1", "1", "1", "1", "1", "1", "1", "1", "1", "1", "1", "1", "1",
        "1", "1", "1", "1", "1", "1", "1", "1", "1", "1", "1", "1",
        "1">>) @@
    ("aaaaaaaaaaaaaaaa222222222222222222222222222222222222222222222222" :>
        <<"a", "a", "a", "a", "a", "a", "a", "a", "a", "a", "a", "a",
        "a", "a", "a", "a", "2", "2", "2", "2", "2", "2", "2", "2", "2",
        "2", "2", "2", "2", "2", "2", "2", "2", "2", "2", "2", "2", "2",
        "2", "2", "2", "2", "2", "2", "2", "2", "2", "2", "2", "2", "2",
        "2", "2", "2", "2", "2", "2", "2", "2", "2", "2", "2", "2",
        "2">>) @@
    ("bbbbbbbbbbbbbbbb111111111111111111111111111111111111111111111111" :>
        <<"b", "b", "b", "b", "b", "b", "b", "b", "b", "b", "b", "b",
        "b", "b", "b", "b", "1", "1", "1", "1", "1", "1", "1", "1", "1",
        "1", "1", "1", "1", "1", "1", "1", "1", "1", "1", "1", "1", "1",
        "1", "1", "1", "1", "1", "1", "1", "1", "1", "1", "1", "1", "1",
        "1", "1", "1", "1", "1", "1", "1", "1", "1", "1", "1", "1",
        "1">>) @@
    ("aaaaaaaaaaaaaaaa" :>
        <<"a", "a", "a", "a", "a", "a", "a", "a", "a", "a", "a", "a",
        "a", "a", "a", "a">>) @@
    ("bbbbbbbbbbbbbbbb" :>
        <<"b", "b", "b", "b", "b", "b", "b", "b", "b", "b", "b", "b",
        "b", "b", "b", "b">>)

Chars(s) == CharTable[s]

\* the characters of a str value
StrChars(x) == [i \in 1..x.n |-> "a"] \o Chars(x.s)

\* len(x) of a str, list or dict
PyLen(x) == CASE x.t = "str" -> x.n + Len(Chars(x.s)) [] x.t = "list" -> Len(x.xs) [] x.t = "dict" -> Len(x.kv)

HasKey(d, k) == \E i \in DOMAIN d.kv : d.kv[i][1] = k

\* dict.get(k, default)
Get(d, k, default) ==
    IF HasKey(d, k)
    THEN d.kv[CHOOSE i \in DOMAIN d.kv : d.kv[i][1] = k][2]
    ELSE default

K_input           == "input"
K_reasoning_steps == "reasoning_steps"
K_conclusion      == "conclusion"
K_confidence      == "confidence"
K_step_number     == "step_number"
K_description     == "description"
K_rationale       == "rationale"

-----------------------------------------------------------------------------
(* Part 1b: json.dumps(obj) and json.dumps(obj, sort_keys=True), default   *)
(* separators (", " and ": ").                                             *)

\* characters in ASCII order, for the key sort of sort_keys=True
Ascii == << " ", "\"", ",", "-", ".", "0", "1", "2", "3", "4", "5", "6", "7",
            "8", "9", ":", "A", "B", "C", "D", "E", "F", "G", "H", "I", "J",
            "K", "L", "M", "N", "O", "P", "Q", "R", "S", "T", "U", "V", "W",
            "X", "Y", "Z", "[", "\\", "]", "_", "a", "b", "c", "d", "e", "f",
            "g", "h", "i", "j", "k", "l", "m", "n", "o", "p", "q", "r", "s",
            "t", "u", "v", "w", "x", "y", "z", "{", "}" >>

Ord(c) == CHOOSE i \in DOMAIN Ascii : Ascii[i] = c

UpperCase == { Ascii[i] : i \in Ord("A")..Ord("Z") }

\* str.lower() on one character
LowerChar(c) ==
    IF c \in UpperCase THEN Ascii[Ord(c) + (Ord("a") - Ord("A"))] ELSE c

Lower(s) == [i \in 1..Len(s) |-> LowerChar(s[i])]

\* s1 < s2 as Python compares str, on their characters
RECURSIVE StrLess(_, _)
StrLess(s1, s2) ==
    IF s2 = <<>> THEN FALSE
    ELSE IF s1 = <<>> THEN TRUE
    ELSE IF s1[1] # s2[1] THEN Ord(s1[1]) < Ord(s2[1])
    ELSE StrLess(Tail(s1), Tail(s2))

\* sorted(d.items()) by key: insertion sort
RECURSIVE InsertItem(_, _)
InsertItem(kv, sorted) ==
    IF sorted = <<>> THEN <<kv>>
    ELSE IF StrLess(Chars(kv[1]), Chars(sorted[1][1])) THEN <<kv>> \o sorted
    ELSE <<sorted[1]>> \o InsertItem(kv, Tail(sorted))

RECURSIVE SortItems(_)
SortItems(kvs) ==
    IF kvs = <<>> THEN <<>> ELSE InsertItem(kvs[1], SortItems(Tail(kvs)))

Digit(n) == Ascii[Ord("0") + n]

RECURSIVE NatRepr(_)
NatRepr(n) == IF n < 10 THEN <<Digit(n)>> ELSE NatRepr(n \div 10) \o <<Digit(n % 10)>>

\* int.__repr__
IntRepr(n) == IF n < 0 THEN <<"-">> \o NatRepr(-n) ELSE NatRepr(n)

\* float.__repr__ of h/100: shortest form, at least one fractional digit
FloatRepr(h) ==
    LET a    == IF h < 0 THEN -h ELSE h
        frac == a % 100
        sign == IF h < 0 THEN <<"-">> ELSE <<>>
        fracDigits == IF frac % 10 = 0 THEN <<Digit(frac \div 10)>>
                      ELSE <<Digit(frac \div 10), Digit(frac % 10)>>
    IN  sign \o NatRepr(a \div 100) \o <<".">> \o fracDigits

\* JSON string escaping of the two printable characters that need it
RECURSIVE EscapeChars(_)
EscapeChars(s) ==
    IF s = <<>> THEN <<>>
    ELSE (IF s[1] \in {"\"", "\\"} THEN <<"\\", s[1]>> ELSE <<s[1]>>)
         \o EscapeChars(Tail(s))

QuoteStr(s) ==
    <<"\"">>
    \o (IF \A i \in DOMAIN s : s[i] \notin {"\"", "\\"} THEN s ELSE EscapeChars(s))
    \o <<"\"">>

\* does json.dumps(x) succeed (FALSE: it raises TypeError)
RECURSIVE Serializable(_)
Serializable(x) ==
    CASE x.t \in {"str", "int", "float", "nan"} -> TRUE
      [] x.t = "list" -> \A i \in DOMAIN x.xs : Serializable(x.xs[i])
      [] x.t = "dict" -> \A i \in DOMAIN x.kv : Serializable(x.kv[i][2])
      [] OTHER -> FALSE

RECURSIVE Dumps(_, _)
RECURSIVE DumpsList(_, _)
RECURSIVE DumpsItems(_, _)

DumpsList(xs, sort_keys) ==
    IF xs = <<>> THEN <<>>
    ELSE Dumps(xs[1], sort_keys)
         \o (IF Len(xs) > 1 THEN <<",", " ">> \o DumpsList(Tail(xs), sort_keys) ELSE <<>>)

DumpsItems(kvs, sort_keys) ==
    IF kvs = <<>> THEN <<>>
    ELSE QuoteStr(Chars(kvs[1][1])) \o <<":", " ">> \o Dumps(kvs[1][2], sort_keys)
         \o (IF Len(kvs) > 1 THEN <<",", " ">> \o DumpsItems(Tail(kvs), sort_keys) ELSE <<>>)

Dumps(x, sort_keys) ==
    CASE x.t = "str"   -> QuoteStr(StrChars(x))
      [] x.t = "int"   -> IntRepr(x.n)
      [] x.t = "float" -> FloatRepr(x.n)
      [] x.t = "nan"   -> <<"N", "a", "N">>
      [] x.t = "list"  -> <<"[">> \o DumpsList(x.xs, sort_keys) \o <<"]">>
      [] x.t = "dict"  -> <<"{">>
                          \o DumpsItems(IF sort_keys THEN SortItems(x.kv) ELSE x.kv, sort_keys)
                          \o <<"}">>

\* p in text, on characters
Contains(text, p) ==
    \E i \in 1..(Len(text) - Len(p) + 1) :
        \A j \in 1..Len(p) : text[i + j - 1] = p[j]

-----------------------------------------------------------------------------
(* Part 1c: REASONING_SCHEMA and jsonschema.validate.                      *)

IsString(x)  == x.t = "str"
IsNumber(x)  == x.t \in {"int", "float", "nan"}
IsInteger(x) == x.t = "int" \/ (x.t = "float" /\ x.n % 100 = 0)
IsObject(x)  == x.t = "dict"
IsArray(x)   == x.t = "list"

\* Python's x < n and x > n for a number x and an int n; every comparison
\* with NaN is False
NumLess(x, n)    == CASE x.t = "int" -> x.n < n [] x.t = "float" -> x.n < 100 * n [] OTHER -> FALSE
NumGreater(x, n) == CASE x.t = "int" -> x.n > n [] x.t = "float" -> x.n > 100 * n [] OTHER -> FALSE

SCHEMA_MIN_LENGTH == 1
SCHEMA_MIN_ITEMS  == 1
SCHEMA_CONF_MIN   == 0
SCHEMA_CONF_MAX   == 1

REQUIRED_FIELDS      == << K_input, K_reasoning_steps, K_conclusion, K_confidence >>
STEP_REQUIRED_FIELDS == << K_step_number, K_description, K_rationale >>

\* {"type": "string", "minLength": 1}
ValidNonEmptyString(x) == IsString(x) /\ PyLen(x) >= SCHEMA_MIN_LENGTH

\* ValidStep with the step number under the key "index"
ValidStep_IndexKey(s) ==
    /\ IsObject(s)
    /\ HasKey(s, "index") /\ HasKey(s, K_description) /\ HasKey(s, K_rationale)
    /\ IsInteger(Get(s, "index", PySet))
    /\ ValidNonEmptyString(Get(s, K_description, PySet))
    /\ ValidNonEmptyString(Get(s, K_rationale, PySet))

\* the "items" subschema of reasoning_steps
ValidStep(s) ==
    /\ IsObject(s)
    /\ \A i \in DOMAIN STEP_REQUIRED_FIELDS : HasKey(s, STEP_REQUIRED_FIELDS[i])
    /\ HasKey(s, K_step_number) => IsInteger(Get(s, K_step_number, PySet))
    /\ HasKey(s, K_description) => ValidNonEmptyString(Get(s, K_description, PySet))
    /\ HasKey(s, K_rationale) => ValidNonEmptyString(Get(s, K_rationale, PySet))

\* the "reasoning_steps" subschema
ValidSteps(x) ==
    /\ IsArray(x)
    /\ Len(x.xs) >= SCHEMA_MIN_ITEMS
    /\ \A i \in DOMAIN x.xs : ValidStep(x.xs[i])

\* ValidConfidence with {"type": "number"} only
ValidConfidence_TypeOnly(x) == IsNumber(x)

\* the "confidence" subschema: the minimum and maximum keywords reject
\* x < minimum and x > maximum, so NaN satisfies both
ValidConfidence(x) ==
    /\ IsNumber(x)
    /\ ~NumLess(x, SCHEMA_CONF_MIN)
    /\ ~NumGreater(x, SCHEMA_CONF_MAX)

\* SchemaValid with the top-level "required" keyword left out of the schema
SchemaValid_NoRequired(x) ==
    /\ IsObject(x)
    /\ HasKey(x, K_input) => IsString(Get(x, K_input, PySet))
    /\ HasKey(x, K_reasoning_steps) => ValidSteps(Get(x, K_reasoning_steps, PySet))
    /\ HasKey(x, K_conclusion) => ValidNonEmptyString(Get(x, K_conclusion, PySet))
    /\ HasKey(x, K_confidence) => ValidConfidence(Get(x, K_confidence, PySet))

\* jsonschema.validate(instance, REASONING_SCHEMA) returns (TRUE) or raises
\* ValidationError (FALSE)
SchemaValid(x) ==
    /\ IsObject(x)
    /\ \A i \in DOMAIN REQUIRED_FIELDS : HasKey(x, REQUIRED_FIELDS[i])
    /\ HasKey(x, K_input) => IsString(Get(x, K_input, PySet))
    /\ HasKey(x, K_reasoning_steps) => ValidSteps(Get(x, K_reasoning_steps, PySet))
    /\ HasKey(x, K_conclusion) => ValidNonEmptyString(Get(x, K_conclusion, PySet))
    /\ HasKey(x, K_confidence) => ValidConfidence(Get(x, K_confidence, PySet))

FORBIDDEN_PATTERNS ==
    << "ignore previous instructions",
       "ignore all instructions",
       "jailbreak",
       "bypass",
       "hack",
       "disable safety",
       "ignore guidelines",
       "forget everything",
       "new instructions",
       "system prompt",
       "override" >>

-----------------------------------------------------------------------------
(* Part 1d: ANNAVerifier.verify_reasoning.                                 *)
(* The locals of one call are the record                                   *)
(*   [checks_passed, failure_reason, ran, failed, exc]                     *)
(* ran lists the checks executed so far and failed those that took their   *)
(* else branch; exc is the exception in flight inside the try block        *)
(* ("none" when there is none).  A reason is                               *)
(* [kind, detail]: kind is the fixed text of the f-string, detail the      *)
(* strings interpolated into it.  The text of a ValidationError or other   *)
(* exception message and the interpolated confidence are not modelled      *)
(* (detail is empty).                                                      *)

TOTAL_CHECKS   == 7
PASS_THRESHOLD == 60
MIN_SIZE       == 100
MAX_SIZE       == 50000
MAX_REPORTED   == 3
CONF_DEFAULT   == -1

NoReason == [kind |-> "", detail |-> <<>>]
Reason(kind, detail) == [kind |-> kind, detail |-> detail]

\* checks_passed += 1 at the end of check n
CheckPassed(st, n) ==
    [st EXCEPT !.checks_passed = @ + 1, !.ran = Append(@, n)]

\* CheckFailed keeping a reason that is already set
CheckFailed_KeepFirst(st, n, reason) ==
    [st EXCEPT !.failure_reason = IF @.kind = "" THEN reason ELSE @,
               !.ran = Append(@, n), !.failed = Append(@, n)]

\* failure_reason = f"..." in the else branch of check n
CheckFailed(st, n, reason) ==
    [st EXCEPT !.failure_reason = reason, !.ran = Append(@, n),
               !.failed = Append(@, n)]

\* an exception raised while check n runs
CheckRaised(st, n, exc) ==
    [st EXCEPT !.exc = exc, !.ran = Append(@, n)]

\* hashlib.sha256(...).hexdigest(), idealised as collision free: the digest
\* is identified with the text it is computed from
Sha256(text) == text

\* calculate_reasoning_hash over the keys in insertion order
calculate_reasoning_hash_Unsorted(x) == Sha256(Dumps(x, FALSE))

\* calculate_reasoning_hash: json.dumps(sort_keys=True), then the digest
calculate_reasoning_hash(x) == Sha256(Dumps(x, TRUE))

\* Check 0: the integrity hash; json.dumps raises TypeError on a value it
\* cannot serialize
Check0(st, rj) ==
    IF Serializable(rj) THEN CheckPassed(st, 0) ELSE CheckRaised(st, 0, "TypeError")

\* Check 2: required fields
Check2(st, rj) ==
    IF st.exc # "none" THEN st
    ELSE IF \A i \in DOMAIN REQUIRED_FIELDS : HasKey(rj, REQUIRED_FIELDS[i])
    THEN CheckPassed(st, 2)
    ELSE CheckFailed(st, 2, Reason("Missing required fields",
            SelectSeq(REQUIRED_FIELDS, LAMBDA f : ~HasKey(rj, f))))

\* DetectedPatterns without .lower()
DetectedPatterns_CaseSensitive(rj) ==
    LET reasoning_text == Dumps(rj, FALSE)
    IN  SelectSeq(FORBIDDEN_PATTERNS, LAMBDA p : Contains(reasoning_text, Chars(p)))

\* detected_patterns
DetectedPatterns(rj) ==
    LET reasoning_text == Lower(Dumps(rj, FALSE)) \o <<>>
    IN  SelectSeq(FORBIDDEN_PATTERNS, LAMBDA p : Contains(reasoning_text, Chars(p)))

\* Check 3 counted as passed whatever the text
Check3_Skipped(st, rj) ==
    IF st.exc # "none" THEN st ELSE CheckPassed(st, 3)

\* Check 3: forbidden patterns
Check3(st, rj) ==
    IF st.exc # "none" THEN st
    ELSE LET detected_patterns == DetectedPatterns(rj)
         IN  IF detected_patterns = <<>>
             THEN CheckPassed(st, 3)
             ELSE CheckFailed(st, 3, Reason("Forbidden patterns detected",
                    SubSeq(detected_patterns, 1,
                           IF Len(detected_patterns) < MAX_REPORTED
                           THEN Len(detected_patterns) ELSE MAX_REPORTED)))

\* Check 4: 0 <= confidence <= 1; the comparison raises TypeError when
\* confidence is not a number
Check4(st, rj) ==
    IF st.exc # "none" THEN st
    ELSE LET confidence == Get(rj, K_confidence, PyInt(CONF_DEFAULT))
         IN  IF ~IsNumber(confidence)
             THEN CheckRaised(st, 4, "TypeError")
             ELSE IF confidence.t # "nan" /\ ~NumLess(confidence, 0) /\ ~NumGreater(confidence, 1)
             THEN CheckPassed(st, 4)
             ELSE CheckFailed(st, 4, Reason("Invalid confidence range", <<>>))

\* Check5 asking for two steps at least
Check5_NeedsTwoSteps(st, rj) ==
    IF st.exc # "none" THEN st
    ELSE LET steps == Get(rj, K_reasoning_steps, PyList(<<>>))
         IN  IF steps.t \notin {"list", "str", "dict"}
             THEN CheckRaised(st, 5, "TypeError")
             ELSE IF PyLen(steps) >= 2
                     /\ (steps.t = "list" /\ \A i \in DOMAIN steps.xs : steps.xs[i].t = "dict")
             THEN CheckPassed(st, 5)
             ELSE CheckFailed(st, 5, Reason("Invalid reasoning steps",
                    <<ToString(PyLen(steps))>>))

\* Check 5: step consistency; len() raises TypeError on a number
Check5(st, rj) ==
    IF st.exc # "none" THEN st
    ELSE LET steps == Get(rj, K_reasoning_steps, PyList(<<>>))
         IN  IF steps.t \notin {"list", "str", "dict"}
             THEN CheckRaised(st, 5, "TypeError")
             ELSE IF PyLen(steps) >= 1
                     /\ (steps.t = "list" /\ \A i \in DOMAIN steps.xs : steps.xs[i].t = "dict")
             THEN CheckPassed(st, 5)
             ELSE CheckFailed(st, 5, Reason("Invalid reasoning steps",
                    <<ToString(PyLen(steps))>>))

\* Check6 with the lower bound ten times too high
Check6_Min1000(st, rj) ==
    IF st.exc # "none" THEN st
    ELSE LET reasoning_size == Len(Dumps(rj, FALSE))
         IN  IF 10 * MIN_SIZE <= reasoning_size /\ reasoning_size <= MAX_SIZE
             THEN CheckPassed(st, 6)
             ELSE CheckFailed(st, 6, Reason("Invalid size", <<ToString(reasoning_size)>>))

\* Check 6: size bound
Check6(st, rj) ==
    IF st.exc # "none" THEN st
    ELSE LET reasoning_size == Len(Dumps(rj, FALSE))
         IN  IF MIN_SIZE <= reasoning_size /\ reasoning_size <= MAX_SIZE
             THEN CheckPassed(st, 6)
             ELSE CheckFailed(st, 6, Reason("Invalid size", <<ToString(reasoning_size)>>))

\* Score with round() in place of int()
Score_Rounded(checks_passed, total_checks) ==
    (2 * checks_passed * 100 + total_checks) \div (2 * total_checks)

\* int((checks_passed / total_checks) * 100): for 0..7 of 7 the float product
\* truncates to the exact floor
Score(checks_passed, total_checks) == (checks_passed * 100) \div total_checks

\* Passed with a threshold of half the checks
Passed_Half(score) == 2 * score >= 100

\* passed = score >= 60
Passed(score) == score >= PASS_THRESHOLD

\* what verify_reasoning hands back.  (passed, score, reason) is the
\* returned tuple; checks_passed, ran and failed record the locals at the
\* return, raised the exception an except clause caught, path the return
\* statement taken; exc names an exception that leaves the function instead.
Verdict(passed, score, reason, st, path, exc) ==
    [passed |-> passed, score |-> score, reason |-> reason,
     checks_passed |-> st.checks_passed, total_checks |-> TOTAL_CHECKS,
     ran |-> st.ran, failed |-> st.failed, raised |-> st.exc,
     path |-> path, exc |-> exc]

\* "except jsonschema.ValidationError as e": return (False, 0, ...)
SchemaFailure(st) ==
    Verdict(FALSE, 0, Reason("Invalid JSON structure", <<>>),
            [st EXCEPT !.ran = Append(@, 1), !.exc = "ValidationError"],
            "schema", "none")

\* the classes "except Exception" catches among those the body can raise
ExceptionClasses == {"TypeError", "ValueError", "ValidationError", "RecursionError"}

\* the outer handler narrowed to "except jsonschema.ValidationError"
CaughtByExceptException_OnlyValidation(exc) == exc = "ValidationError"

CaughtByExceptException(exc) == exc \in ExceptionClasses

\* "except Exception as e": return (False, 0, "Verification error: ...")
ErrorHandler(st) ==
    IF CaughtByExceptException(st.exc)
    THEN Verdict(FALSE, 0, Reason("Verification error", <<>>), st, "error", "none")
    ELSE Verdict(FALSE, 0, NoReason, st, "raise", st.exc)

\* lines 259-268: score, threshold and the returned tuple
Conclude(st) ==
    LET score  == Score(st.checks_passed, TOTAL_CHECKS)
        passed == Passed(score)
    IN  Verdict(passed, score,
                IF ~passed THEN st.failure_reason ELSE Reason("All checks passed", <<>>),
                st, "full", "none")

verify_reasoning(rj) ==
    LET st0 == [checks_passed |-> 0, failure_reason |-> NoReason,
                ran |-> <<>>, failed |-> <<>>, exc |-> "none"]
        st1 == Check0(st0, rj)
    IN  IF st1.exc # "none" THEN ErrorHandler(st1)
        ELSE IF ~SchemaValid(rj) THEN SchemaFailure(st1)
        ELSE LET st6 == Check6(Check5(Check4(Check3(Check2(CheckPassed(st1, 1), rj), rj), rj), rj), rj)
             IN  IF st6.exc # "none" THEN ErrorHandler(st6) ELSE Conclude(st6)

-----------------------------------------------------------------------------
(* Part 1e: the records verify_reasoning is exercised on.                  *)

MaxSteps == 2

S_x      == "x"
S_c      == "c"
S_d      == "d"
S_r      == "r"
S_hack   == "Hack"
S_bypass == "please ByPass the filter"
S_conf   == "0.9"


\* a field that is not in the dict
Absent == PyValue("absent", "", 0, <<>>, <<>>)

\* the dict literal {k1: v1, ...} without the absent fields
DictOf(kvs) == PyDict(SelectSeq(kvs, LAMBDA kv : kv[2].t # "absent"))

Step(n, description, rationale) ==
    DictOf(<< <<K_step_number, PyInt(n)>>, <<K_description, description>>,
              <<K_rationale, rationale>> >>)

StepChoices(n) ==
    { Step(n, PyStr(S_d), PyStr(S_r)),      \* well formed
      Step(n, PyStr(S_d), Absent),          \* rationale missing
      Step(n, Absent, PyStr(S_r)),          \* description missing
      Step(n, PyStr(""), PyStr(S_r)),     \* description shorter than minLength
      Step(n, PyStr(S_d), PyStr(S_hack)),   \* well formed, deny-list word inside
      PyStr(S_x) }                          \* an item that is not an object

RECURSIVE StepLists(_)
StepLists(k) ==
    IF k = 0 THEN { <<>> }
    ELSE { Append(l, s) : l \in StepLists(k - 1), s \in StepChoices(k) }

StepsChoices ==
    { Absent, PyInt(MaxSteps) } \cup { PyList(l) : l \in UNION { StepLists(k) : k \in 0..MaxSteps } }

InputChoices == { Absent, PyStr(S_x), PyStr(S_bypass), PyInt(5), PySet }

ConclusionChoices == { Absent, PyStr(S_c), PyStr("") }

ConfidenceChoices ==
    { Absent, PyFloat(95), PyInt(1), PyFloat(150), PyFloat(-50), PyNaN, PyStr(S_conf) }

Record(input, steps, conclusion, confidence) ==
    DictOf(<< <<K_input, input>>, <<K_reasoning_steps, steps>>,
              <<K_conclusion, conclusion>>, <<K_confidence, confidence>> >>)

SmallRecords ==
    { Record(i, s, c, f) : i \in InputChoices, s \in StepsChoices,
                           c \in ConclusionChoices, f \in ConfidenceChoices }

\* records over MAX_SIZE, with and without a deny-list word
HugeRecords ==
    { Record(PyLongStr(MAX_SIZE, i), PyList(<<Step(1, PyStr(S_d), PyStr(S_r))>>),
             PyStr(S_c), f) :
        i \in { "", S_bypass }, f \in { PyFloat(95), PyNaN, PyFloat(150) } }

\* arguments that are not dicts
NonRecords == { PyList(<<>>), PyStr(S_x), PyInt(5), PySet }

\* input "x", one step (1, "d", "r"), conclusion "c", confidence 0.95, the
\* step number under the key k
ScenarioRecord(k) ==
    Record(PyStr(S_x),
           PyList(<< PyDict(<< <<k, PyInt(1)>>, <<K_description, PyStr(S_d)>>,
                               <<K_rationale, PyStr(S_r)>> >>) >>),
           PyStr(S_c), PyFloat(95))

Records ==
    SmallRecords \cup HugeRecords \cup NonRecords
    \cup { ScenarioRecord(K_step_number), ScenarioRecord("index") }

NoRecord == Absent

NoVerdict ==
    Verdict(FALSE, 0, NoReason,
            [checks_passed |-> 0, ran |-> <<>>, failed |-> <<>>, exc |-> "none"],
            "none", "none")

-----------------------------------------------------------------------------
(* Part 2: the watcher.  One thread runs listen_for_attestations; pc is    *)
(* its position.  The ledger is the environment: what get_new_entries      *)
(* returns, whether an RPC call raises and what the receipt says are       *)
(* chosen nondeterministically.                                            *)

MaxPolls == 2
MaxBatch == 2

FILE_PREFIX_LEN == 16

\* attestationId.hex(): 64 hex digits; the first two ids agree on their
\* first 16 digits
AttestationIds ==
    { "aaaaaaaaaaaaaaaa111111111111111111111111111111111111111111111111",
      "aaaaaaaaaaaaaaaa222222222222222222222222222222222222222222222222",
      "bbbbbbbbbbbbbbbb111111111111111111111111111111111111111111111111" }

NoId == ""

Agents     == { "0xAgent" }
Categories == { "legal" }

\* event['args'] of an AttestationSubmitted event
Events ==
    [attestationId : AttestationIds, agent : Agents, category : Categories]

RECURSIVE Batches(_)
Batches(k) ==
    IF k = 0 THEN { <<>> }
    ELSE { Append(b, e) : b \in Batches(k - 1), e \in Events }

\* what one get_new_entries call may return
PollResults == UNION { Batches(k) : k \in 0..MaxBatch }


\* the example with a deny-list word in its input
example_reasoning_Forbidden ==
    PyDict(<< <<K_input, PyStr(S_bypass)>>,
              <<K_reasoning_steps,
                PyList(<< PyDict(<< <<K_step_number, PyInt(1)>>,
                                    <<K_description, PyStr("Identified contract type")>>,
                                    <<K_rationale, PyStr("User requested legal contract")>> >>),
                          PyDict(<< <<K_step_number, PyInt(2)>>,
                                    <<K_description, PyStr("Applied legal framework")>>,
                                    <<K_rationale, PyStr("Used Brazilian Civil Code")>> >>) >>)>>,
              <<K_conclusion, PyStr("Contract generated successfully")>>,
              <<K_confidence, PyFloat(92)>> >>)

\* the dict literal of lines 419-435
example_reasoning ==
    PyDict(<< <<K_input, PyStr("Generate legal contract")>>,
              <<K_reasoning_steps,
                PyList(<< PyDict(<< <<K_step_number, PyInt(1)>>,
                                    <<K_description, PyStr("Identified contract type")>>,
                                    <<K_rationale, PyStr("User requested legal contract")>> >>),
                          PyDict(<< <<K_step_number, PyInt(2)>>,
                                    <<K_description, PyStr("Applied legal framework")>>,
                                    <<K_rationale, PyStr("Used Brazilian Civil Code")>> >>) >>)>>,
              <<K_conclusion, PyStr("Contract generated successfully")>>,
              <<K_confidence, PyFloat(92)>> >>)

\* return values of submit_verification
ReturnNone    == [none |-> TRUE,  fake |-> FALSE, nonce |-> -1]
FakeTxHash    == [none |-> FALSE, fake |-> TRUE,  nonce |-> -1]   \* "0x" + "0" * 64
TxHash(t)     == [none |-> FALSE, fake |-> FALSE, nonce |-> t.nonce]

NoTx == [id |-> NoId, passed |-> FALSE, score |-> 0, nonce |-> -1]

\* the dict log_verification is called with
LogResult(passed, score, dry, status, hash) ==
    [passed |-> passed, score |-> score, dry_run |-> dry, status |-> status,
     tx_hash |-> hash]

\* log_entry (the timestamp and the verifier address are not modelled)
LogEntry(id, res) == [attestation_id |-> id, result |-> res]

\* attestation_id[:16], on characters
Prefix(id) ==
    SubSeq(Chars(id), 1,
           IF Len(Chars(id)) < FILE_PREFIX_LEN THEN Len(Chars(id)) ELSE FILE_PREFIX_LEN)

\* f"logs/verifications/{attestation_id[:16]}.json": the str whose characters
\* are the prefix
FileName(id) == CHOOSE f \in DOMAIN CharTable : Chars(f) = Prefix(id)

\* open(filename, 'w') + json.dump: the file is created or truncated
WriteFile(files, name, entry) ==
    [n \in DOMAIN files \cup {name} |-> IF n = name THEN entry ELSE files[n]]

\* log_verification: the per-id file, then one line of the structured log
log_verification(id, res) ==
    /\ log_files' = WriteFile(log_files, FileName(id), LogEntry(id, res))
    /\ json_log' = Append(json_log, LogEntry(id, res))

\* the call in progress is the last of submit_calls
CurrentCall == submit_calls[Len(submit_calls)]

\* submit_verification returns ret to the for loop, which goes on with the
\* next event ("if tx_hash:" only logs)
Return(ret, log_after) ==
    /\ submit_returns' = Append(submit_returns, ret)
    /\ log_at_return' = Append(log_at_return, Len(log_after) - CurrentCall.log_len)
    /\ tx' = NoTx
    /\ pc' = "for"

\* what an SDK call that has not finished has produced
NoResult == [kind |-> "none", status |-> "", verified |-> FALSE]

\* calculate_reasoning_hash is not being compared
HashIdle ==
    /\ reordered = NoRecord
    /\ hashes = <<>>

\* no wait_for_verification call
WaitIdle ==
    /\ wait_args = [timeout |-> 0, poll_interval |-> 0]
    /\ wait_pc = "idle"
    /\ elapsed = 0
    /\ status_onchain = 0
    /\ wait_result = NoResult

\* no submit_attestation call
SubmitIdle ==
    /\ sub_args = [attestation_contract |-> FALSE, identity_contract |-> FALSE,
                   confidence |-> Absent, reasoning_steps |-> <<>>,
                   registered |-> 0, wait_for_confirmation |-> FALSE]
    /\ sub_pc = "idle"
    /\ agent_id = -1
    /\ sent = 0
    /\ sub_result = NoResult

InitWatcher ==
    /\ dry_run \in BOOLEAN
    /\ pc = "poll"
    /\ polls = 0
    /\ new_events = <<>>
    /\ processed_events = {}
    /\ skipped = {}
    /\ attestation_id = NoId
    /\ tx = NoTx
    /\ chain = [receipts |-> <<>>, pending |-> {}]
    /\ log_files = << >>
    /\ json_log = << >>
    /\ submit_calls = << >>
    /\ submit_returns = << >>
    /\ log_at_return = << >>

Init ==
    /\ reasoning_json = NoRecord
    /\ verdict = NoVerdict
    /\ InitWatcher
    /\ HashIdle /\ WaitIdle /\ SubmitIdle

\* line 386: event_filter.get_new_entries() returns a batch
Poll ==
    /\ pc = "poll"
    /\ polls < MaxPolls
    /\ \E batch \in PollResults : new_events' = batch
    /\ polls' = polls + 1
    /\ pc' = "for"
    /\ UNCHANGED << reasoning_json, verdict, dry_run, processed_events, skipped,
                    attestation_id, tx, chain, log_files, json_log,
                    submit_calls, submit_returns, log_at_return >>
    /\ UNCHANGED otherVars

\* PollRaises with the error leaving the loop
PollRaises_Stops ==
    /\ pc = "poll"
    /\ polls < MaxPolls
    /\ polls' = polls + 1
    /\ pc' = "stopped"
    /\ UNCHANGED << reasoning_json, verdict, dry_run, new_events,
                    processed_events, skipped, attestation_id, tx, chain, log_files,
                    json_log, submit_calls, submit_returns, log_at_return >>
    /\ UNCHANGED otherVars

\* line 386 raises (ledger unreachable): "except Exception" of the loop
PollRaises ==
    /\ pc = "poll"
    /\ polls < MaxPolls
    /\ polls' = polls + 1
    /\ pc' = "error_sleep"
    /\ UNCHANGED << reasoning_json, verdict, dry_run, new_events,
                    processed_events, skipped, attestation_id, tx, chain, log_files,
                    json_log, submit_calls, submit_returns, log_at_return >>
    /\ UNCHANGED otherVars

\* lines 388-393: the next event is a duplicate: continue
SkipDuplicate ==
    /\ pc = "for"
    /\ new_events # <<>>
    /\ Head(new_events).attestationId \in processed_events
    /\ skipped' = skipped \cup { Head(new_events).attestationId }
    /\ new_events' = Tail(new_events)
    /\ UNCHANGED << reasoning_json, verdict, dry_run, pc, polls,
                    processed_events, attestation_id, tx, chain, log_files,
                    json_log, submit_calls, submit_returns, log_at_return >>
    /\ UNCHANGED otherVars

\* MarkProcessed without processed_events.add
MarkProcessed_NoAdd ==
    /\ pc = "for"
    /\ new_events # <<>>
    /\ Head(new_events).attestationId \notin processed_events
    /\ attestation_id' = Head(new_events).attestationId
    /\ new_events' = Tail(new_events)
    /\ pc' = "verify"
    /\ UNCHANGED << reasoning_json, verdict, dry_run, polls, skipped, tx, chain,
                    log_files, json_log, submit_calls, submit_returns,
                    log_at_return, processed_events >>
    /\ UNCHANGED otherVars

\* MarkProcessed iterating the batch from its end
MarkProcessed_TakesLast ==
    /\ pc = "for"
    /\ new_events # <<>>
    /\ new_events[Len(new_events)].attestationId \notin processed_events
    /\ processed_events' = processed_events \cup { new_events[Len(new_events)].attestationId }
    /\ attestation_id' = new_events[Len(new_events)].attestationId
    /\ new_events' = SubSeq(new_events, 1, Len(new_events) - 1)
    /\ pc' = "verify"
    /\ UNCHANGED << reasoning_json, verdict, dry_run, polls, skipped, tx, chain,
                    log_files, json_log, submit_calls, submit_returns,
                    log_at_return >>
    /\ UNCHANGED otherVars

\* lines 388-437: a new event: processed_events.add, then the log lines
MarkProcessed ==
    /\ pc = "for"
    /\ new_events # <<>>
    /\ Head(new_events).attestationId \notin processed_events
    /\ processed_events' = processed_events \cup { Head(new_events).attestationId }
    /\ attestation_id' = Head(new_events).attestationId
    /\ new_events' = Tail(new_events)
    /\ pc' = "verify"
    /\ UNCHANGED << reasoning_json, verdict, dry_run, polls, skipped, tx, chain,
                    log_files, json_log, submit_calls, submit_returns,
                    log_at_return >>
    /\ UNCHANGED otherVars

\* lines 397-437 raise once the id is in processed_events (the event lacks
\* one of the args the loop reads): "except Exception" of the loop
DispatchRaises ==
    /\ pc = "verify"
    /\ pc' = "error_sleep"
    /\ UNCHANGED << reasoning_json, verdict, dry_run, polls, new_events,
                    processed_events, skipped, attestation_id, tx, chain,
                    log_files, json_log, submit_calls, submit_returns,
                    log_at_return >>
    /\ UNCHANGED otherVars

\* line 444 with the condition false: a verdict that is not submitted
SubmitCondition_OnlyPassed(passed) == passed

\* line 444: if passed or not passed
SubmitCondition(passed) == passed \/ ~passed

\* where the loop body goes once verify_reasoning has returned v
AfterVerify(v) ==
    IF v.exc # "none" THEN "error_sleep"
    ELSE IF SubmitCondition(v.passed) THEN "submit" ELSE "for"

\* line 441: passed, score, reason = self.verify_reasoning(example_reasoning)
Verify ==
    /\ pc = "verify"
    /\ verdict' = verify_reasoning(example_reasoning)
    /\ pc' = AfterVerify(verdict')
    /\ UNCHANGED << reasoning_json, dry_run, polls, new_events, processed_events, skipped,
                    attestation_id, tx, chain, log_files, json_log,
                    submit_calls, submit_returns, log_at_return >>
    /\ UNCHANGED otherVars

\* SubmitEnter without the dry-run branch
SubmitEnter_AlwaysLive ==
    /\ pc = "submit"
    /\ submit_calls' = Append(submit_calls,
            [id |-> attestation_id, passed |-> verdict.passed,
             score |-> verdict.score, log_len |-> Len(json_log)])
    /\ pc' = "build"
    /\ UNCHANGED << log_files, json_log, submit_returns, log_at_return >>
    /\ UNCHANGED << reasoning_json, verdict, dry_run, polls, new_events,
                    processed_events, skipped, attestation_id, tx, chain >>
    /\ UNCHANGED otherVars

\* lines 445, 291-307: submit_verification is entered; in dry-run mode it
\* logs and returns the fake hash
SubmitEnter ==
    /\ pc = "submit"
    /\ submit_calls' = Append(submit_calls,
            [id |-> attestation_id, passed |-> verdict.passed,
             score |-> verdict.score, log_len |-> Len(json_log)])
    /\ IF dry_run
       THEN /\ log_verification(attestation_id,
                    LogResult(verdict.passed, verdict.score, TRUE, "", FakeTxHash))
            /\ submit_returns' = Append(submit_returns, FakeTxHash)
            /\ log_at_return' = Append(log_at_return, 1)
            /\ pc' = "for"
       ELSE /\ pc' = "build"
            /\ UNCHANGED << log_files, json_log, submit_returns, log_at_return >>
    /\ UNCHANGED << reasoning_json, verdict, dry_run, polls, new_events,
                    processed_events, skipped, attestation_id, tx, chain >>
    /\ UNCHANGED otherVars

\* lines 309-325: the nonce is read (get_transaction_count counts the mined
\* transactions of the account) and the transaction is built
BuildTransaction ==
    /\ pc = "build"
    /\ tx' = [id |-> attestation_id, passed |-> CurrentCall.passed,
              score |-> CurrentCall.score, nonce |-> Len(chain.receipts)]
    /\ pc' = "send"
    /\ UNCHANGED << reasoning_json, verdict, dry_run, polls, new_events,
                    processed_events, skipped, attestation_id, chain, log_files,
                    json_log, submit_calls, submit_returns, log_at_return >>
    /\ UNCHANGED otherVars

\* lines 328-329: sign and send_raw_transaction
SendTransaction ==
    /\ pc = "send"
    /\ chain' = [chain EXCEPT !.pending = @ \cup { tx }]
    /\ pc' = "wait"
    /\ UNCHANGED << reasoning_json, verdict, dry_run, polls, new_events,
                    processed_events, skipped, attestation_id, tx, log_files, json_log,
                    submit_calls, submit_returns, log_at_return >>
    /\ UNCHANGED otherVars

\* lines 335-347, 358: the receipt arrives with status 1
ReceiptSuccess ==
    /\ pc = "wait"
    /\ chain' = [receipts |-> Append(chain.receipts, 1), pending |-> chain.pending \ { tx }]
    /\ log_verification(tx.id, LogResult(tx.passed, tx.score, FALSE, "success", TxHash(tx)))
    /\ Return(TxHash(tx), json_log')
    /\ UNCHANGED << reasoning_json, verdict, dry_run, polls, new_events,
                    processed_events, skipped, attestation_id, submit_calls >>
    /\ UNCHANGED otherVars

\* ReceiptFailed returning None
ReceiptFailed_ReturnsNone ==
    /\ pc = "wait"
    /\ chain' = [receipts |-> Append(chain.receipts, 0), pending |-> chain.pending \ { tx }]
    /\ log_verification(tx.id, LogResult(tx.passed, tx.score, FALSE, "failed", ReturnNone))
    /\ Return(ReturnNone, json_log')
    /\ UNCHANGED << reasoning_json, verdict, dry_run, polls, new_events,
                    processed_events, skipped, attestation_id, submit_calls >>
    /\ UNCHANGED otherVars

\* ReceiptFailed taking the branch of status 1
ReceiptFailed_LogsSuccess ==
    /\ pc = "wait"
    /\ chain' = [receipts |-> Append(chain.receipts, 0), pending |-> chain.pending \ { tx }]
    /\ log_verification(tx.id, LogResult(tx.passed, tx.score, FALSE, "success", TxHash(tx)))
    /\ Return(TxHash(tx), json_log')
    /\ UNCHANGED << reasoning_json, verdict, dry_run, polls, new_events,
                    processed_events, skipped, attestation_id, submit_calls >>
    /\ UNCHANGED otherVars

\* lines 335-337, 348-358: the receipt arrives with status 0
ReceiptFailed ==
    /\ pc = "wait"
    /\ chain' = [receipts |-> Append(chain.receipts, 0), pending |-> chain.pending \ { tx }]
    /\ log_verification(tx.id, LogResult(tx.passed, tx.score, FALSE, "failed", ReturnNone))
    /\ Return(TxHash(tx), json_log')
    /\ UNCHANGED << reasoning_json, verdict, dry_run, polls, new_events,
                    processed_events, skipped, attestation_id, submit_calls >>
    /\ UNCHANGED otherVars

\* lines 360-362: an RPC call of lines 316-335 raises (connection error,
\* rejected transaction, TimeExhausted of the 120 s wait): "except Exception"
\* logs the error and returns None
SubmitRaises ==
    /\ pc \in { "build", "send", "wait" }
    /\ Return(ReturnNone, json_log)
    /\ UNCHANGED << reasoning_json, verdict, dry_run, polls, new_events,
                    processed_events, skipped, attestation_id, chain, log_files,
                    json_log, submit_calls >>
    /\ UNCHANGED otherVars

\* line 388 with the batch exhausted, then line 456: time.sleep(poll_interval)
Sleep ==
    /\ pc = "for"
    /\ new_events = <<>>
    /\ pc' = "poll"
    /\ UNCHANGED << reasoning_json, verdict, dry_run, polls, new_events,
                    processed_events, skipped, attestation_id, tx, chain, log_files,
                    json_log, submit_calls, submit_returns, log_at_return >>
    /\ UNCHANGED otherVars

\* ErrorSleep that takes the failed id out of processed_events
ErrorSleep_Forgets ==
    /\ pc = "error_sleep"
    /\ new_events' = <<>>
    /\ processed_events' = processed_events \ { attestation_id }
    /\ pc' = "poll"
    /\ UNCHANGED << reasoning_json, verdict, dry_run, polls,
                    skipped, attestation_id, tx, chain, log_files,
                    json_log, submit_calls, submit_returns, log_at_return >>
    /\ UNCHANGED otherVars

\* lines 461-463: the error is logged, the rest of the batch is dropped with
\* the iteration, and the loop sleeps before the next poll
ErrorSleep ==
    /\ pc = "error_sleep"
    /\ new_events' = <<>>
    /\ pc' = "poll"
    /\ UNCHANGED << reasoning_json, verdict, dry_run, polls,
                    processed_events, skipped, attestation_id, tx, chain, log_files,
                    json_log, submit_calls, submit_returns, log_at_return >>
    /\ UNCHANGED otherVars

\* lines 458-460: Ctrl-C anywhere inside the try block ends the loop.
\* KeyboardInterrupt is no Exception, so submit_verification lets it through.
KeyboardInterrupt ==
    /\ pc \in { "poll", "for", "verify", "submit", "build", "send", "wait" }
    /\ pc' = "stopped"
    /\ UNCHANGED << reasoning_json, verdict, dry_run, polls, new_events,
                    processed_events, skipped, attestation_id, tx, chain, log_files,
                    json_log, submit_calls, submit_returns, log_at_return >>
    /\ UNCHANGED otherVars

Next ==
    \/ Poll
    \/ PollRaises
    \/ SkipDuplicate
    \/ MarkProcessed
    \/ DispatchRaises
    \/ Verify
    \/ SubmitEnter
    \/ BuildTransaction
    \/ SendTransaction
    \/ ReceiptSuccess
    \/ ReceiptFailed
    \/ SubmitRaises
    \/ Sleep
    \/ ErrorSleep
    \/ KeyboardInterrupt

Spec == Init /\ [][Next]_vars

-----------------------------------------------------------------------------
(* The watcher with the resolver of lines 413-416 in place of the example: *)
(* the record verified at line 441 depends on the attestation id.  One id  *)
(* resolves to the example, which passes, one to a record that fails the   *)
(* schema and one to a record that fails checks 3, 4 and 6.                *)

\* fetch_from_ipfs(attestation_id): the ids in "b..." resolve to the record
\* that fails checks 3, 4 and 6, the other ids to the example when they end
\* in "1" and to a record without conclusion otherwise
Resolve(id) ==
    IF Chars(id)[1] = "b"
    THEN Record(PyLongStr(MAX_SIZE, S_bypass),
                PyList(<<Step(1, PyStr(S_d), PyStr(S_r))>>), PyStr(S_c), PyNaN)
    ELSE IF Chars(id)[Len(Chars(id))] = "1"
    THEN example_reasoning
    ELSE Record(PyStr(S_x), PyList(<<Step(1, PyStr(S_d), PyStr(S_r))>>),
                Absent, PyFloat(95))

\* what verify_reasoning returns on the record of each id
ResolvedVerdict == [id \in AttestationIds |-> verify_reasoning(Resolve(id))]

\* line 441 on the record the resolver hands over
VerifyReturns ==
    /\ pc = "verify"
    /\ verdict' = ResolvedVerdict[attestation_id]
    /\ pc' = AfterVerify(verdict')
    /\ UNCHANGED << reasoning_json, dry_run, polls, new_events, processed_events,
                    skipped, attestation_id, tx, chain, log_files, json_log,
                    submit_calls, submit_returns, log_at_return >>
    /\ UNCHANGED otherVars

NextDispatch ==
    \/ Poll
    \/ PollRaises
    \/ SkipDuplicate
    \/ MarkProcessed
    \/ DispatchRaises
    \/ VerifyReturns
    \/ SubmitEnter
    \/ BuildTransaction
    \/ SendTransaction
    \/ ReceiptSuccess
    \/ ReceiptFailed
    \/ SubmitRaises
    \/ Sleep
    \/ ErrorSleep
    \/ KeyboardInterrupt

SpecDispatch == Init /\ [][NextDispatch]_vars

-----------------------------------------------------------------------------
(* submit_verification on its own: one call, with any attestation id and   *)
(* any (passed, score) verify_reasoning can return.                        *)

InitSubmit ==
    /\ reasoning_json = NoRecord
    /\ verdict \in { verify_reasoning(r) : r \in Records }
    /\ InitWatcher
    /\ HashIdle /\ WaitIdle /\ SubmitIdle

\* line 445: the call, from the loop body
CallSubmit ==
    /\ pc = "poll"
    /\ submit_calls = <<>>
    /\ \E id \in AttestationIds :
          /\ attestation_id' = id
          /\ processed_events' = { id }
    /\ pc' = "submit"
    /\ UNCHANGED << reasoning_json, verdict, dry_run, polls, new_events, skipped,
                    tx, chain, log_files, json_log, submit_calls,
                    submit_returns, log_at_return >>
    /\ UNCHANGED otherVars

NextSubmit ==
    \/ CallSubmit
    \/ SubmitEnter
    \/ BuildTransaction
    \/ SendTransaction
    \/ ReceiptSuccess
    \/ ReceiptFailed
    \/ SubmitRaises

SpecSubmit == InitSubmit /\ [][NextSubmit]_vars

-----------------------------------------------------------------------------
(* calculate_reasoning_hash on its own: it is applied to a record and to   *)
(* the same record with the keys of its dicts, at every depth, inserted in *)
(* another order.                                                          *)

RECURSIVE Reorderings(_), ReorderEach(_)
\* the values x with the keys of every dict in any order
Reorderings(x) ==
    IF x.t = "dict"
    THEN { PyDict([i \in DOMAIN x.kv |-> << x.kv[p[i]][1], vs[p[i]] >>]) :
             p \in Permutations(DOMAIN x.kv),
             vs \in ReorderEach([i \in DOMAIN x.kv |-> x.kv[i][2]]) }
    ELSE IF x.t = "list" THEN { PyList(ys) : ys \in ReorderEach(x.xs) }
    ELSE { x }
ReorderEach(xs) ==
    IF xs = <<>> THEN { <<>> }
    ELSE { <<h>> \o t : h \in Reorderings(Head(xs)), t \in ReorderEach(Tail(xs)) }

HashRecords ==
    { Record(PyStr(S_x), PyList(l), PyStr(S_c), PyFloat(95)) :
        l \in { <<Step(1, PyStr(S_d), PyStr(S_r))>>,
                <<Step(1, PyStr(S_d), PyStr(S_r)), Step(2, PyStr(S_d), PyStr(S_hack))>> } }
    \cup { Record(PyStr(S_bypass), PyList(<<>>), Absent, PyInt(1)) }

InitHash ==
    /\ reasoning_json \in HashRecords
    /\ reordered \in Reorderings(reasoning_json)
    /\ hashes = <<>>
    /\ verdict = NoVerdict
    /\ InitWatcher
    /\ dry_run = TRUE
    /\ WaitIdle /\ SubmitIdle

\* line 197 on each of the two records
ComputeHashes ==
    /\ hashes = <<>>
    /\ hashes' = << calculate_reasoning_hash(reasoning_json),
                    calculate_reasoning_hash(reordered) >>
    /\ UNCHANGED << reasoning_json, verdict, watcherVars, reordered, waitVars,
                    submitVars >>

SpecHash == InitHash /\ [][ComputeHashes]_vars

-----------------------------------------------------------------------------
(* The validator on its own: the argument is drawn from Records and        *)
(* verify_reasoning is applied to it.                                      *)

InitVerify ==
    /\ reasoning_json \in Records
    /\ verdict = NoVerdict
    /\ InitWatcher
    /\ dry_run = TRUE
    /\ HashIdle /\ WaitIdle /\ SubmitIdle

VerifyReasoning ==
    /\ verdict.path = "none"
    /\ verdict' = verify_reasoning(reasoning_json)
    /\ UNCHANGED << reasoning_json, dry_run, pc, polls, new_events,
                    processed_events, skipped, attestation_id, tx, chain, log_files,
                    json_log, submit_calls, submit_returns, log_at_return >>
    /\ UNCHANGED otherVars

NextVerify == VerifyReasoning

SpecVerify == InitVerify /\ [][NextVerify]_vars

-----------------------------------------------------------------------------
(* Part 3: the SDK client (src/sdk/anna_sdk.py).  wait_for_verification    *)
(* and submit_attestation are each run as one call by one caller; the      *)
(* ledger is the environment.  The clock counts whole seconds.             *)

MaxTimeout  == 3
MaxInterval == 2
MaxAgentId  == 2

\* the members of the Enum AttestationStatus and their values
AttestationStatusMembers ==
    { [name |-> "PENDING",    value |-> PyStr("pending")],
      [name |-> "VERIFIED",   value |-> PyStr("verified")],
      [name |-> "REJECTED",   value |-> PyStr("rejected")],
      [name |-> "CHALLENGED", value |-> PyStr("challenged")] }

\* AttestationStatus(v): the member whose value equals v; ValueError when
\* there is none
AttestationStatus(v) ==
    LET ms == { m \in AttestationStatusMembers : m.value = v }
    IN  IF ms = {} THEN "ValueError" ELSE (CHOOSE m \in ms : TRUE).name

\* the "status" output of attestations(), a uint8: the contract's enum has
\* one number per status
OnchainStatuses == 0..(Cardinality(AttestationStatusMembers) - 1)

Raised(kind) == [kind |-> kind, status |-> "", verified |-> FALSE]

\* wait_for_verification(attestation_id, timeout, poll_interval) is called
InitWait ==
    /\ reasoning_json = NoRecord
    /\ verdict = NoVerdict
    /\ InitWatcher
    /\ dry_run = TRUE
    /\ HashIdle /\ SubmitIdle
    /\ wait_args \in [timeout : 0..MaxTimeout, poll_interval : 1..MaxInterval]
    /\ wait_pc = "while"
    /\ elapsed = 0
    /\ status_onchain \in OnchainStatuses
    /\ wait_result = NoResult

\* line 558: the loop condition; line 576 when it is false
WaitLoop ==
    /\ wait_pc = "while"
    /\ IF elapsed < wait_args.timeout
       THEN wait_pc' = "get" /\ UNCHANGED wait_result
       ELSE wait_pc' = "done" /\ wait_result' = Raised("TimeoutError")
    /\ UNCHANGED << reasoning_json, verdict, watcherVars, hashVars, submitVars,
                    wait_args, elapsed, status_onchain >>

\* lines 559-574: get_attestation takes d seconds; web3 decodes the uint8
\* status to an int and the Enum call of line 529 raises on it, or the status
\* is returned, or the caller sleeps
WaitPoll ==
    /\ wait_pc = "get"
    /\ \E d \in 0..1 :
          LET status == AttestationStatus(PyInt(status_onchain))
          IN  IF status = "ValueError"
              THEN /\ wait_result' = Raised("ValueError")
                   /\ wait_pc' = "done"
                   /\ elapsed' = elapsed + d
              ELSE IF status # "PENDING"
              THEN /\ wait_result' = [kind |-> "AttestationResult", status |-> status,
                                      verified |-> (status = "VERIFIED")]
                   /\ wait_pc' = "done"
                   /\ elapsed' = elapsed + d
              ELSE /\ elapsed' = elapsed + d + wait_args.poll_interval
                   /\ wait_pc' = "while"
                   /\ UNCHANGED wait_result
    /\ UNCHANGED << reasoning_json, verdict, watcherVars, hashVars, submitVars,
                    wait_args, status_onchain >>

\* the ledger moves the attestation to another status while the caller waits
StatusChanges ==
    /\ wait_pc \in { "while", "get" }
    /\ \E st \in OnchainStatuses : st > status_onchain /\ status_onchain' = st
    /\ UNCHANGED << reasoning_json, verdict, watcherVars, hashVars, submitVars,
                    wait_args, wait_pc, elapsed, wait_result >>

NextWait ==
    \/ WaitLoop
    \/ WaitPoll
    \/ StatusChanges

SpecWait == InitWait /\ [][NextWait]_vars

\* a Reasoning's steps: k ReasoningStep objects
ReasoningSteps(k) ==
    [i \in 1..k |-> [step_number |-> i, description |-> S_d, rationale |-> S_r]]

\* submit_attestation(content, reasoning, category, tier, wait_for_confirmation)
\* is called on a client set up with or without the contract addresses
InitAttest ==
    /\ reasoning_json = NoRecord
    /\ verdict = NoVerdict
    /\ InitWatcher
    /\ dry_run = TRUE
    /\ HashIdle /\ WaitIdle
    /\ sub_args \in [attestation_contract : BOOLEAN, identity_contract : BOOLEAN,
                     confidence : { PyFloat(95), PyInt(0), PyInt(1), PyFloat(150),
                                    PyFloat(-50), PyNaN },
                     reasoning_steps : { ReasoningSteps(k) : k \in 0..MaxSteps },
                     registered : 0..MaxAgentId,
                     wait_for_confirmation : BOOLEAN]
    /\ sub_pc = "validate"
    /\ agent_id = -1
    /\ sent = 0
    /\ sub_result = NoResult

\* line 399 with the lower bound left out
ConfidenceAccepted_UpperOnly(c) == c.t # "nan" /\ ~NumGreater(c, 1)

\* line 399: 0 <= reasoning.confidence <= 1
ConfidenceAccepted(c) == c.t # "nan" /\ ~NumLess(c, 0) /\ ~NumGreater(c, 1)

\* what submit_attestation raises
Raise(kind) ==
    /\ sub_result' = Raised(kind)
    /\ sub_pc' = "done"

\* lines 395-409: the three checks, then the hashes
SubValidate ==
    /\ sub_pc = "validate"
    /\ IF \/ ~sub_args.attestation_contract
          \/ ~ConfidenceAccepted(sub_args.confidence)
          \/ Len(sub_args.reasoning_steps) = 0
       THEN Raise("ValueError")
       ELSE sub_pc' = "agent" /\ UNCHANGED sub_result
    /\ UNCHANGED << reasoning_json, verdict, watcherVars, hashVars, waitVars,
                    sub_args, agent_id, sent >>

\* lines 412-414: self.identity is set only with an identity contract; the
\* call may fail in transport; agent id 0 means not registered
SubAgentLookup ==
    /\ sub_pc = "agent"
    /\ IF ~sub_args.identity_contract
       THEN Raise("AttributeError") /\ UNCHANGED agent_id
       ELSE \/ Raise("ConnectionError") /\ UNCHANGED agent_id
            \/ /\ agent_id' = sub_args.registered
               /\ IF agent_id' = 0
                  THEN Raise("ValueError")
                  ELSE sub_pc' = "send" /\ UNCHANGED sub_result
    /\ UNCHANGED << reasoning_json, verdict, watcherVars, hashVars, waitVars,
                    sub_args, sent >>

\* lines 416-490: sign, build and send the transaction; an RPC call may
\* raise before anything is sent
SubSend ==
    /\ sub_pc = "send"
    /\ \/ Raise("ConnectionError") /\ UNCHANGED sent
       \/ sent' = sent + 1 /\ sub_pc' = "confirm" /\ UNCHANGED sub_result
    /\ UNCHANGED << reasoning_json, verdict, watcherVars, hashVars, waitVars,
                    sub_args, agent_id >>

\* lines 492-506: the receipt is awaited if asked for; the result is PENDING
SubConfirm ==
    /\ sub_pc = "confirm"
    /\ \E receipt_status \in 0..1 :
          IF sub_args.wait_for_confirmation /\ receipt_status # 1
          THEN Raise("Exception")
          ELSE /\ sub_result' = [kind |-> "AttestationResult", status |-> "PENDING",
                                 verified |-> FALSE]
               /\ sub_pc' = "done"
    /\ UNCHANGED << reasoning_json, verdict, watcherVars, hashVars, waitVars,
                    sub_args, agent_id, sent >>

NextAttest ==
    \/ SubValidate
    \/ SubAgentLookup
    \/ SubSend
    \/ SubConfirm

SpecAttest == InitAttest /\ [][NextAttest]_vars

-----------------------------------------------------------------------------
(* Properties of the watcher (checked under Spec).                         *)

CallsFor(id)   == { i \in DOMAIN submit_calls : submit_calls[i].id = id }
EntriesFor(id) == { i \in DOMAIN json_log : json_log[i].attestation_id = id }
\* the submit_verification call made for id has returned
Returned(id)   == \E i \in CallsFor(id) : i \in DOMAIN submit_returns

\* C1: an attestation id that was delivered again and skipped as a duplicate
\* has had at most one submit_verification call, and once that call has
\* returned the audit log holds exactly one entry for the id.
C1_DuplicateDeliveryOneSubmitOneEntry ==
    \A id \in skipped :
        /\ Cardinality(CallsFor(id)) <= 1
        /\ Returned(id) => Cardinality(EntriesFor(id)) = 1

\* C2: every submit_verification call that has returned wrote exactly one
\* audit-log entry, whatever its outcome.
C2_EveryCallLogsOnce ==
    \A i \in DOMAIN log_at_return : log_at_return[i] = 1

-----------------------------------------------------------------------------
(* Properties of verify_reasoning (checked under SpecVerify).  The         *)
(* predicates below describe records in the words of the properties; they  *)
(* do not use SchemaValid or the checks.                                   *)

Done == verdict.path # "none"

Field(r, k) == Get(r, k, Absent)

\* a confidence that is a number inside [0, 1]
ConfidenceInRange(c) ==
    \/ c.t = "int" /\ c.n >= 0 /\ c.n <= 1
    \/ c.t = "float" /\ c.n >= 0 /\ c.n <= 100

\* a confidence that is a number outside [0, 1]
ConfidenceOutOfRange(c) ==
    \/ c.t = "int" /\ (c.n < 0 \/ c.n > 1)
    \/ c.t = "float" /\ (c.n < 0 \/ c.n > 100)

WellFormedStep(st) ==
    /\ st.t = "dict"
    /\ Field(st, K_step_number).t = "int"
    /\ Field(st, K_description).t = "str" /\ PyLen(Field(st, K_description)) >= 1
    /\ Field(st, K_rationale).t = "str" /\ PyLen(Field(st, K_rationale)) >= 1

\* input, at least one well-formed step and conclusion are there
WellFormedButConfidence(r) ==
    /\ r.t = "dict"
    /\ Field(r, K_input).t = "str"
    /\ Field(r, K_reasoning_steps).t = "list"
    /\ Field(r, K_reasoning_steps).xs # <<>>
    /\ \A i \in DOMAIN Field(r, K_reasoning_steps).xs :
           WellFormedStep(Field(r, K_reasoning_steps).xs[i])
    /\ Field(r, K_conclusion).t = "str" /\ PyLen(Field(r, K_conclusion)) >= 1

WellFormed(r) ==
    WellFormedButConfidence(r) /\ ConfidenceInRange(Field(r, K_confidence))

\* the serialization contains a deny-list substring, compared case-insensitively
HasForbidden(r) ==
    /\ Serializable(r)
    /\ LET text == Lower(Dumps(r, FALSE)) \o <<>>
       IN  \E i \in DOMAIN FORBIDDEN_PATTERNS : Contains(text, Chars(FORBIDDEN_PATTERNS[i]))

SizeOf(r) == Len(Dumps(r, FALSE))

SizeInBounds(r) == SizeOf(r) >= 100 /\ SizeOf(r) <= 50000

\* a record that fails schema conformance the way C3 lists: a required field
\* is missing, or a step lacks description or rationale
MissesRequired(r) ==
    /\ r.t = "dict"
    /\ \/ \E k \in { K_input, K_reasoning_steps, K_conclusion, K_confidence } : ~HasKey(r, k)
       \/ /\ Field(r, K_reasoning_steps).t = "list"
          /\ \E i \in DOMAIN Field(r, K_reasoning_steps).xs :
                LET st == Field(r, K_reasoning_steps).xs[i]
                IN  st.t = "dict" /\ (~HasKey(st, K_description) \/ ~HasKey(st, K_rationale))

\* C3: a record that misses a required field, or has a step without
\* description or rationale, gets passed=false and score=0, and none of the
\* checks after the schema check has run.
C3_SchemaFailureIsTerminal ==
    (Done /\ MissesRequired(reasoning_json)) =>
        /\ ~verdict.passed
        /\ verdict.score = 0
        /\ \A i \in DOMAIN verdict.ran : verdict.ran[i] \in {0, 1}

\* a record whose only defect is the missing conclusion was short-circuited
C3_Witness ==
    /\ verdict.path = "schema"
    /\ ~HasKey(reasoning_json, K_conclusion)
    /\ HasKey(reasoning_json, K_input)
    /\ ConfidenceInRange(Field(reasoning_json, K_confidence))
    /\ Field(reasoning_json, K_reasoning_steps).t = "list"
    /\ Field(reasoning_json, K_reasoning_steps).xs # <<>>
    /\ \A i \in DOMAIN Field(reasoning_json, K_reasoning_steps).xs :
           WellFormedStep(Field(reasoning_json, K_reasoning_steps).xs[i])

\* C4 as stated: a well-formed record with confidence in [0,1], at least one
\* step and no forbidden substring gets passed=true and score=100.
C4_WellFormedScores100 ==
    (Done /\ WellFormed(reasoning_json) /\ ~HasForbidden(reasoning_json)) =>
        verdict.passed /\ verdict.score = 100

\* C4 amended: such a record gets passed=true and score=100 when its
\* serialization is between 100 and 50000 characters long.
C4_WellFormedInSizeScores100 ==
    (Done /\ WellFormed(reasoning_json) /\ ~HasForbidden(reasoning_json)
          /\ SizeInBounds(reasoning_json)) =>
        verdict.passed /\ verdict.score = 100

C4_Witness ==
    /\ Done /\ WellFormed(reasoning_json) /\ ~HasForbidden(reasoning_json)
    /\ SizeInBounds(reasoning_json)
    /\ verdict.score = 100

\* C5 as stated: a record whose serialization contains a deny-list substring
\* gets passed=false and a reason that names a deny-list term.
C5_ForbiddenFails ==
    (Done /\ HasForbidden(reasoning_json)) =>
        /\ ~verdict.passed
        /\ verdict.reason.kind = "Forbidden patterns detected"
        /\ verdict.reason.detail # <<>>

\* C5 amended: for a record that passes the schema check and contains a
\* deny-list substring the forbidden-pattern check fails and costs exactly
\* one check (score at most 85); the verdict is passed=true as long as 5 of
\* the 7 checks pass, and the returned reason never names a deny-list term.
C5_ForbiddenCostsOneCheck ==
    (Done /\ HasForbidden(reasoning_json) /\ verdict.path = "full") =>
        /\ \E i \in DOMAIN verdict.failed : verdict.failed[i] = 3
        /\ verdict.checks_passed =
               6 - (IF Field(reasoning_json, K_confidence).t = "nan" THEN 1 ELSE 0)
                 - (IF SizeInBounds(reasoning_json) THEN 0 ELSE 1)
        /\ verdict.score <= 85
        /\ verdict.passed <=> verdict.checks_passed >= 5
        /\ verdict.reason.kind # "Forbidden patterns detected"

C5_Witness ==
    /\ Done /\ HasForbidden(reasoning_json) /\ verdict.path = "full"
    /\ verdict.passed /\ verdict.score = 85
    /\ verdict.reason.kind = "All checks passed"

FailureKind(n) ==
    CASE n = 2 -> "Missing required fields"
      [] n = 3 -> "Forbidden patterns detected"
      [] n = 4 -> "Invalid confidence range"
      [] n = 5 -> "Invalid reasoning steps"
      [] n = 6 -> "Invalid size"

\* C7 as stated: when more than one check fails, the reason the failing
\* verdict carries is that of the first failing check.
C7_FirstFailureReported ==
    (verdict.path = "full" /\ Len(verdict.failed) >= 2 /\ ~verdict.passed) =>
        verdict.reason.kind = FailureKind(verdict.failed[1])

\* C7 amended: when more than one check fails, each failing check overwrites
\* the reason, so a failing verdict carries the description of the last
\* failing check; a passing verdict carries "All checks passed".
C7_LastFailureReported ==
    (verdict.path = "full" /\ Len(verdict.failed) >= 2) =>
        verdict.reason.kind =
            IF verdict.passed THEN "All checks passed"
            ELSE FailureKind(verdict.failed[Len(verdict.failed)])

C7_Witness ==
    /\ verdict.path = "full" /\ Len(verdict.failed) >= 2 /\ ~verdict.passed
    /\ verdict.reason.kind = "Invalid size"
    /\ verdict.failed[1] = 3

\* C8: after the full battery, score = floor(checks_passed / 7 * 100) and
\* passed holds exactly when score >= 60: 5, 6, 7 passed checks give 71, 85,
\* 100 and pass, 4 or fewer give at most 57 and fail.
C8_ScoreAndThreshold ==
    verdict.path = "full" =>
        /\ 7 * verdict.score <= 100 * verdict.checks_passed
        /\ 100 * verdict.checks_passed < 7 * (verdict.score + 1)
        /\ verdict.passed <=> verdict.score >= 60
        /\ verdict.checks_passed = 5 => verdict.score = 71 /\ verdict.passed
        /\ verdict.checks_passed = 6 => verdict.score = 85 /\ verdict.passed
        /\ verdict.checks_passed = 7 => verdict.score = 100 /\ verdict.passed
        /\ verdict.checks_passed <= 4 => verdict.score <= 57 /\ ~verdict.passed

C8_Witness ==
    verdict.path = "full" /\ verdict.checks_passed = 4 /\ verdict.score = 57
        /\ ~verdict.passed

\* round(a / b) for a, b > 0 with no tie
RoundDiv(a, b) == (2 * a + b) \div (2 * b)

\* C9 as stated: every returned verdict has
\* score = round(checks_passed / total_checks * 100), total_checks = 7.
C9_ScoreIsRounded ==
    Done =>
        /\ verdict.total_checks = 7
        /\ verdict.score = RoundDiv(100 * verdict.checks_passed, verdict.total_checks)

\* C9 amended: total_checks is 7; a verdict of the full battery has
\* score = floor(checks_passed / 7 * 100) (85 for 6 of 7), and the verdicts
\* of the schema short-circuit and of the error path have score 0 whatever
\* checks_passed is (it is 1 on the schema path).
C9_ScoreIsFloorOrZero ==
    Done =>
        /\ verdict.total_checks = 7
        /\ verdict.path = "full" =>
              /\ 7 * verdict.score <= 100 * verdict.checks_passed
              /\ 100 * verdict.checks_passed < 7 * (verdict.score + 1)
        /\ verdict.path = "schema" => verdict.score = 0 /\ verdict.checks_passed = 1
        /\ verdict.path = "error" => verdict.score = 0

C9_Witness ==
    verdict.path = "full" /\ verdict.checks_passed = 6 /\ verdict.score = 85

\* C10: no exception leaves verify_reasoning, whatever the argument, and a
\* call in which a step raised returns passed=false, score=0.
C10_NoExceptionEscapes ==
    Done =>
        /\ verdict.exc = "none"
        /\ verdict.raised # "none" => ~verdict.passed /\ verdict.score = 0

\* an argument json.dumps cannot serialize was answered with a verdict
C10_Witness ==
    /\ Done /\ ~Serializable(reasoning_json)
    /\ verdict.raised = "TypeError" /\ verdict.exc = "none"
    /\ ~verdict.passed /\ verdict.score = 0

-----------------------------------------------------------------------------
(* Properties of the poll loop and of submit_verification (checked under   *)
(* Spec, SpecDispatch and SpecSubmit).                                     *)

Last(seq) == seq[Len(seq)]

\* this step is the handling of an event failing: the loop body raises, or
\* submit_verification comes back from a call that did not end in a receipt
\* of status 1
HandlingFails ==
    \/ pc = "verify" /\ pc' = "error_sleep"
    \/ /\ pc \in { "build", "send", "wait" }
       /\ Len(submit_returns') > Len(submit_returns)
       /\ ~(Len(json_log') > Len(json_log) /\ Last(json_log').result.status = "success")

\* C11: when the handling of an event fails the loop goes on (to the next
\* event of the batch or, through the handler's sleep, to the next poll), the
\* event's id is still in processed_events, no id ever leaves processed_events,
\* and an id is dispatched only while it is not in processed_events.
C11_FailureKeepsLoopAndId ==
    [][ /\ HandlingFails => /\ pc' \in { "for", "error_sleep" }
                            /\ attestation_id \in processed_events'
        /\ pc = "error_sleep" => pc' = "poll"
        /\ processed_events \subseteq processed_events'
        /\ (pc = "for" /\ pc' = "verify") => attestation_id' \notin processed_events
      ]_vars

\* a submission that raised and a loop body that raised, both ids delivered
\* again and skipped, and the loop about to poll
C11_Witness ==
    /\ pc = "poll"
    /\ \E i \in DOMAIN submit_returns :
          submit_returns[i] = ReturnNone /\ submit_calls[i].id \in skipped
    /\ \E id \in skipped : CallsFor(id) = {}

\* C12: in dry-run mode submit_verification reads no nonce, builds and sends
\* no transaction and leaves the ledger as it was, and every call returns at
\* once with the fake transaction hash.
C12_DryRunTouchesNoLedger ==
    dry_run =>
        /\ tx = NoTx
        /\ chain = [receipts |-> <<>>, pending |-> {}]
        /\ pc \notin { "build", "send", "wait" }
        /\ Len(submit_returns) = Len(submit_calls)
        /\ \A i \in DOMAIN submit_returns :
              submit_returns[i] = FakeTxHash /\ ~submit_returns[i].none

\* a dry-run call with a failing verdict has returned
C12_Witness ==
    /\ dry_run
    /\ submit_calls # <<>>
    /\ ~submit_calls[1].passed /\ submit_calls[1].score = 0
    /\ submit_returns = <<FakeTxHash>>

\* what a returned call reported: whether it returned None, and the status
\* field of the audit entries it wrote
Report(i) ==
    [none |-> submit_returns[i].none,
     statuses |-> [k \in 1..log_at_return[i] |->
                      json_log[submit_calls[i].log_len + k].result.status]]

\* the transaction of call i was mined with receipt status 0
LogicalFailure(i) ==
    /\ i \in DOMAIN submit_returns
    /\ ~submit_returns[i].none /\ ~submit_returns[i].fake
    /\ chain.receipts[submit_returns[i].nonce + 1] = 0

\* call i ended in the except branch: a send error or a confirmation timeout
TransportFailure(i) ==
    /\ i \in DOMAIN submit_returns
    /\ submit_returns[i].none

\* C13: in live mode a call whose transaction was mined with a non-success
\* receipt writes an audit entry of status "failed" for its attestation id,
\* and its report differs from the report of every call that failed in
\* transport.
C13_LogicalFailureReported ==
    \A i \in DOMAIN submit_returns :
        LogicalFailure(i) =>
            /\ Report(i).statuses = << "failed" >>
            /\ json_log[submit_calls[i].log_len + 1].attestation_id = submit_calls[i].id
            /\ \A j \in DOMAIN submit_returns :
                  TransportFailure(j) => Report(j) # Report(i)

\* one call ended with a failed receipt and another with a transport failure
C13_Witness ==
    /\ ~dry_run
    /\ \E i, j \in DOMAIN submit_returns : LogicalFailure(i) /\ TransportFailure(j)

\* C14: once verify_reasoning has returned for a dispatched event the loop
\* goes to submit_verification, whatever the verdict; that call is made with
\* the event's id and the verdict's passed flag and score, it is the first
\* call for this id, and no id ever has two calls.
C14_EveryVerdictSubmittedOnce ==
    /\ [](\A id \in AttestationIds : Cardinality(CallsFor(id)) <= 1)
    /\ [][ /\ (pc = "verify" /\ pc' \notin { "verify", "error_sleep", "stopped" })
                => pc' = "submit"
           /\ (pc = "submit" /\ pc' \notin { "submit", "stopped" })
                => /\ CallsFor(attestation_id) = {}
                   /\ Len(submit_calls') = Len(submit_calls) + 1
                   /\ Last(submit_calls').id = attestation_id
                   /\ Last(submit_calls').passed = verdict.passed
                   /\ Last(submit_calls').score = verdict.score
         ]_vars

\* a failing verdict (4 of 7 checks, score 57) was submitted and the call
\* has returned
C14_Witness ==
    \E i \in DOMAIN submit_returns :
        ~submit_calls[i].passed /\ submit_calls[i].score = 57

-----------------------------------------------------------------------------
(* Property of calculate_reasoning_hash (checked under SpecHash).          *)

\* C15: two records that differ only in the order of their keys, at the top
\* level or inside their steps, have the same integrity hash.
C15_HashStableUnderKeyOrder ==
    hashes # <<>> => hashes[1] = hashes[2]

\* the two records list their top-level keys in different orders, serialize
\* differently in insertion order, and have been hashed
C15_Witness ==
    /\ hashes # <<>>
    /\ reordered.kv[1][1] # reasoning_json.kv[1][1]
    /\ Dumps(reordered, FALSE) # Dumps(reasoning_json, FALSE)
    /\ Len(Field(reasoning_json, K_reasoning_steps).xs) = 2

-----------------------------------------------------------------------------
(* The scenarios (checked under SpecVerify).                               *)

\* C16 as stated: the Scenario A record, its step number under step_number
\* or under index, fails the size check only: 6 of 7 checks, score 85,
\* passed.
C16_ScenarioAScores85 ==
    (Done /\ reasoning_json \in { ScenarioRecord(K_step_number), ScenarioRecord("index") }) =>
        /\ verdict.checks_passed = 6 /\ verdict.failed = <<6>>
        /\ verdict.score = 85 /\ verdict.passed

\* C16: the Scenario A record with the step number under step_number
\* serializes to 132 characters and passes all 7 checks: score 100, passed;
\* with the step number under index it fails the schema check: score 0, not
\* passed, and no later check runs.
C16_ScenarioAScores100OrZero ==
    /\ (Done /\ reasoning_json = ScenarioRecord(K_step_number)) =>
          /\ SizeOf(reasoning_json) = 132
          /\ verdict.checks_passed = 7 /\ verdict.failed = <<>>
          /\ verdict.score = 100 /\ verdict.passed
    /\ (Done /\ reasoning_json = ScenarioRecord("index")) =>
          /\ SizeOf(reasoning_json) = 126
          /\ verdict.path = "schema" /\ verdict.ran = <<0, 1>>
          /\ verdict.score = 0 /\ ~verdict.passed

C16_Witness ==
    /\ Done
    /\ reasoning_json = ScenarioRecord(K_step_number)
    /\ verdict.score = 100 /\ verdict.ran = <<0, 1, 2, 3, 4, 5, 6>>

\* C17: a record that is well formed, has its confidence in [0, 1] and its
\* size within the bounds, and contains a deny-list substring (in any case)
\* fails the forbidden-pattern check only: 6 of 7 checks, score 85, passed.
C17_ForbiddenOnlyScores85 ==
    (Done /\ WellFormed(reasoning_json) /\ SizeInBounds(reasoning_json)
          /\ HasForbidden(reasoning_json)) =>
        /\ verdict.checks_passed = 6 /\ verdict.failed = <<3>>
        /\ verdict.score = 85 /\ verdict.passed

\* the record whose input is "please ByPass the filter" has been verified
C17_Witness ==
    /\ Done
    /\ WellFormed(reasoning_json) /\ SizeInBounds(reasoning_json)
    /\ Field(reasoning_json, K_input) = PyStr(S_bypass)
    /\ verdict.failed = <<3>> /\ verdict.score = 85

-----------------------------------------------------------------------------
(* Property of the audit log (checked under Spec).                         *)

\* C18: every attestation id that log_verification was called for has its
\* own record in logs/verifications: the file named after the id holds the
\* entry written for that id, not one written for another id.
C18_EveryIdKeepsItsRecord ==
    \A i \in DOMAIN json_log :
        LET id == json_log[i].attestation_id
        IN  /\ FileName(id) \in DOMAIN log_files
            /\ log_files[FileName(id)].attestation_id = id

-----------------------------------------------------------------------------
(* Properties of the SDK client (checked under SpecWait and SpecAttest).   *)

\* C19: a wait_for_verification call ends either by returning a result whose
\* status is not PENDING, with verified true exactly for VERIFIED, or by
\* raising TimeoutError once timeout seconds have elapsed.
C19_WaitReturnsOrTimesOut ==
    wait_pc = "done" =>
        \/ /\ wait_result.kind = "AttestationResult"
           /\ wait_result.status # "PENDING"
           /\ wait_result.verified <=> (wait_result.status = "VERIFIED")
        \/ /\ wait_result.kind = "TimeoutError"
           /\ elapsed >= wait_args.timeout

\* C20: submit_attestation sends a transaction only when the confidence is
\* in [0, 1], there is at least one step and agentIdByAddress returned a
\* non-zero id; a call that ends with the confidence outside [0, 1], with no
\* step, or with agentIdByAddress having returned 0 raised ValueError and
\* sent nothing.
C20_InvalidSubmissionSendsNothing ==
    /\ sent > 0 =>
          /\ ConfidenceInRange(sub_args.confidence)
          /\ sub_args.reasoning_steps # <<>>
          /\ agent_id > 0
    /\ ( /\ sub_pc = "done"
         /\ \/ ~ConfidenceInRange(sub_args.confidence)
            \/ sub_args.reasoning_steps = <<>>
            \/ agent_id = 0 )
       => sub_result.kind = "ValueError" /\ sent = 0

\* a call with a negative confidence has raised ValueError on a client
\* whose contracts are set up and whose agent is registered
C20_Witness ==
    /\ sub_pc = "done"
    /\ sub_args.attestation_contract /\ sub_args.identity_contract
    /\ sub_args.registered > 0
    /\ sub_args.reasoning_steps # <<>>
    /\ sub_args.confidence = PyFloat(-50)
    /\ sub_result.kind = "ValueError" /\ sent = 0


-----------------------------------------------------------------------------
(* Properties of the order of the loop's steps (checked under Spec).       *)

\* the positions of the loop between line 395 and the return of
\* submit_verification
InDispatch == pc \in { "verify", "submit", "build", "send", "wait" }

\* C21: while an event is being verified or submitted its id is already in
\* processed_events, every id submit_verification was called with is in
\* processed_events, the id being verified has had no call before, and no id
\* has two calls; the id of a dispatch that raised stays in the set.
C21_MarkedBeforeDispatch ==
    /\ InDispatch => attestation_id \in processed_events
    /\ pc = "error_sleep" => attestation_id \in processed_events \cup { NoId }
    /\ \A i \in DOMAIN submit_calls : submit_calls[i].id \in processed_events
    /\ pc = "verify" => CallsFor(attestation_id) = {}
    /\ \A id \in AttestationIds : Cardinality(CallsFor(id)) <= 1

\* a transaction is awaited while the same id waits again in the batch, after
\* the dispatch of another id has raised
C21_Witness ==
    /\ pc = "wait"
    /\ new_events # <<>>
    /\ Head(new_events).attestationId = attestation_id
    /\ \E id \in processed_events : id # attestation_id /\ CallsFor(id) = {}

\* C22: no event of a batch is dropped: an event that leaves new_events on a
\* step either has its id in processed_events after the step (it is being
\* dispatched, or it was a duplicate) or is still in the batch.
C22_FailureIsolatedToOneEvent ==
    [][ \A i \in DOMAIN new_events :
            \/ new_events[i].attestationId \in processed_events'
            \/ \E j \in DOMAIN new_events' : new_events'[j] = new_events[i]
      ]_vars

\* C23: a transaction that was sent has an entry for its id in the audit log.
C23_LoggedBeforeSent ==
    \A t \in chain.pending : EntriesFor(t.id) # {}

\* C24: the loop stops on a KeyboardInterrupt step only; a poll or a dispatch
\* that raises takes the loop to the handler of lines 461-463, which goes
\* back to polling.
C24_OnlyInterruptLeavesLoop ==
    [][ /\ pc' = "stopped" => KeyboardInterrupt
        /\ (PollRaises \/ DispatchRaises) => pc' = "error_sleep"
        /\ pc = "error_sleep" => pc' = "poll" /\ polls' = polls
      ]_vars

\* the loop is about to poll again after a poll and a dispatch have raised
C24_Witness ==
    /\ pc = "poll"
    /\ polls = MaxPolls
    /\ submit_calls = <<>>
    /\ processed_events # {}

\* C25: when the loop has stopped, the transaction of the call that was in
\* progress is not left awaiting its receipt.
C25_InterruptWaitsForSubmission ==
    pc = "stopped" => tx \notin chain.pending

\* C26: events are taken from the front of the batch, one at a time; the one
\* dispatched is the first one left; every submit_verification call has
\* returned before the next event is verified, and at most one call is open.
C26_SequentialInFetchOrder ==
    /\ [](/\ pc \in { "poll", "for", "verify", "submit" } =>
                Len(submit_returns) = Len(submit_calls)
          /\ pc \in { "build", "send", "wait" } =>
                /\ Len(submit_calls) = Len(submit_returns) + 1
                /\ CurrentCall.id = attestation_id
          /\ Len(submit_calls) - Len(submit_returns) \in { 0, 1 })
    /\ [][ /\ (pc = "for" /\ pc' = "verify") =>
                /\ attestation_id' = Head(new_events).attestationId
                /\ new_events' = Tail(new_events)
           /\ (pc = "for" /\ pc' = "for" /\ new_events' # new_events) =>
                new_events' = Tail(new_events)
         ]_vars

\* the two events of one poll, with different ids, have both been submitted
\* and the first call returned before the second was made
C26_Witness ==
    /\ polls = 1
    /\ Len(submit_calls) = 2 /\ Len(submit_returns) = 2
    /\ submit_calls[1].id # submit_calls[2].id
    /\ pc = "for"

-----------------------------------------------------------------------------
(* Property of verify_reasoning (checked under SpecVerify).                *)

\* the schema check has passed
PassedSchema ==
    /\ Done
    /\ verdict.path # "schema"
    /\ Len(verdict.ran) >= 2 /\ verdict.ran[2] = 1

Failed(n) == \E i \in DOMAIN verdict.failed : verdict.failed[i] = n

\* C27 as stated: passed=false comes with score 0 only; a record that passes
\* the schema check passes checks 2, 4 and 5, so it has at least 5 checks, a
\* score among 71, 85, 100 and passed=true.
C27_FailsOnlyWithScore0 ==
    Done =>
        /\ ~verdict.passed => verdict.score = 0
        /\ PassedSchema =>
              /\ ~Failed(2) /\ ~Failed(4) /\ ~Failed(5)
              /\ verdict.checks_passed >= 5
              /\ verdict.score \in { 71, 85, 100 }
              /\ verdict.passed

\* C27: passed=false comes with score 0 (schema failure or internal error)
\* or with score 57.  A record that passes the schema check runs the full
\* battery and passes checks 2 and 5; it fails check 4 exactly when its
\* confidence is NaN; it has at least 4 checks and a score among 57, 71, 85,
\* 100; it is passed=false exactly when it fails checks 3, 4 and 6 together.
C27_FailsWithScore0Or57 ==
    Done =>
        /\ ~verdict.passed => verdict.score \in { 0, 57 }
        /\ verdict.score = 0 => verdict.path \in { "schema", "error", "raise" }
        /\ PassedSchema =>
              /\ verdict.path = "full"
              /\ ~Failed(2) /\ ~Failed(5)
              /\ Failed(4) <=> Field(reasoning_json, K_confidence) = PyNaN
              /\ verdict.checks_passed >= 4
              /\ verdict.score \in { 57, 71, 85, 100 }
              /\ ~verdict.passed <=> verdict.failed = <<3, 4, 6>>
              /\ (HasForbidden(reasoning_json) /\ ~SizeInBounds(reasoning_json)
                    /\ ~Failed(4)) => verdict.score = 71 /\ verdict.passed

\* a record with a deny-list word and over the size bound: with confidence
\* 0.95 it has passed with 71
C27_Witness ==
    /\ PassedSchema
    /\ HasForbidden(reasoning_json) /\ ~SizeInBounds(reasoning_json)
    /\ Field(reasoning_json, K_confidence) = PyFloat(95)
    /\ verdict.score = 71 /\ verdict.passed

-----------------------------------------------------------------------------
(* Properties of submit_verification in live mode (checked under Spec).    *)

\* line 447, "if tx_hash:": the loop logs the verification as complete
VerificationComplete(i) == ~submit_returns[i].none

C29_PendingNoncesDiffer ==
    \A t1, t2 \in chain.pending : t1.nonce = t2.nonce => t1 = t2

\* C30: every submit_verification call of the loop carries passed=true and
\* score=100, and the verdict the loop holds is the one of the example.
C30_VerdictIgnoresEvent ==
    /\ \A i \in DOMAIN submit_calls :
          submit_calls[i].passed /\ submit_calls[i].score = 100
    /\ pc \in { "submit", "build", "send", "wait" } =>
          /\ verdict.passed /\ verdict.score = 100
          /\ verdict.failed = <<>>

\* the three ids have been submitted, each with passed=true and score=100
C30_Witness ==
    /\ { submit_calls[i].id : i \in DOMAIN submit_calls } = AttestationIds
    /\ \A i \in DOMAIN submit_calls :
          submit_calls[i].passed /\ submit_calls[i].score = 100

=============================================================================
